---- MODULE Spec2Model ----
(***************************************************************************)
(* Granule allocator (mm_gran): gran_initialize, gran_alloc,               *)
(* gran_mark_allocated, gran_free.                                         *)
(*                                                                         *)
(* Data representation.  A uint32_t GAT word is the set of its set bit     *)
(* positions, a subset of 0..31 (bit 0 is the least significant bit), so   *)
(* that 0xffffffff is 0..31 and 0 is {}.  The bitwise operators of the C   *)
(* code are the set operators below; bits shifted beyond position 31 or    *)
(* below position 0 are dropped, as the 32 bit width does.                 *)
(*                                                                         *)
(* ABI.  The model is of an LP64 build: uintptr_t, size_t and unsigned     *)
(* long are 64 bit, unsigned int is 32 bit, sizeof(struct mm_gran) is 24   *)
(* and gat[] starts at offset 16.  Addresses in the model are far below    *)
(* 2^31, so pointer sums never wrap; differences that go negative are      *)
(* reduced as the unsigned types reduce them (see NGranulesOf).            *)
(***************************************************************************)
EXTENDS Integers, FiniteSets, Sequences, TLC

VARIABLES
    pc,        \* "start": before gran_initialize; "ready": instance exists
    raw,       \* the arguments given to gran_initialize
    gran,      \* struct mm_gran fields: log2gran, ngranules, heapstart
    gat,       \* memory words at gran->gat[0..]: word index -> set of set bits
    live,      \* allocations handed out and not yet given back: {[addr, size]}
    call,      \* the last call: [op, size, mem, ret, prior]
    fault,     \* "none", or the assertion that failed and stopped the program
    misuses,   \* number of gran_free calls so far that broke the contract
    phase,     \* round-trip bookkeeping: "idle", "allocs", "frees"
    snap,      \* the GAT when the round trip began
    round,     \* allocations of the round trip not yet freed
    locals,    \* main's addr1, addr2, ... in order, and how far main has got
    frame      \* gran_alloc's local variables while a call is in progress

vars ==
    <<pc, raw, gran, gat, live, call, fault, misuses, phase, snap, round, locals,
      frame>>

(***************************************************************************)
(* Program constants                                                       *)
(***************************************************************************)
WordBits == 32
SizeofMmGran == 24
GatOffset == 16
SizeofWord == 4
MaxRun == 32
U16Mod == 65536
U32Shr5 == 134217728
IntBits == 32
IntShiftOf32 == 5
NULL == 0

(***************************************************************************)
(* Bounds of the model                                                     *)
(***************************************************************************)
MaxLive == 2
MaxMisuse == 1

(***************************************************************************)
(* uint32_t words as bit sets                                              *)
(***************************************************************************)
Pow2(n) == 2 ^ n

AllOnes == 0 .. (WordBits - 1)

\* The constants 0x0000ffff, 0xff, 0xf, 0x3: the k low bits.
LowMask(k) == 0 .. (k - 1)

And(a, b) == a \cap b
Or(a, b) == a \cup b
Not(a) == AllOnes \ a

\* w >> s for 0 <= s < 32
Shr(w, s) == {b - s : b \in {x \in w : x >= s}}

\* w << s for 0 <= s < 32, truncated to 32 bits
Shl(w, s) == {b + s : b \in {x \in w : x + s < WordBits}}

\* 0xffffffff >> (32 - n).  For n = 0 the shift count is 32, which C leaves
\* undefined: ub is the word the build produces there (0 when the shifter
\* saturates, 0xffffffff when it takes the count modulo 32).
RunMask(n, ub) == IF n = 0 THEN ub ELSE Shr(AllOnes, WordBits - n)

UBShift32 == {{}, AllOnes}

(***************************************************************************)
(* gran_initialize                                                         *)
(***************************************************************************)
\* (addr + mask) & ~mask with mask = (1 << log2) - 1
AlignUp(addr, log2) ==
    ((addr + (Pow2(log2) - 1)) \div Pow2(log2)) * Pow2(log2)

\* ngranules = ((heapend - alignedstart) & ~mask) >> log2gran, an unsigned long
\* stored into an unsigned int.  With d = heapend - alignedstart the 64 bit
\* value is d mod 2^64, so the unsigned int is floor(d / 2^log2gran) mod 2^32.
\* The result here is the two's complement reading of that unsigned int: q
\* itself when d >= 0, and the negative q standing for 2^32 + q when d < 0.
NGranulesOf(heapend, alignedstart, log2g) ==
    (heapend - alignedstart) \div Pow2(log2g)

\* SIZEOF_GAT(n) = (n + 31) >> 5 in unsigned int arithmetic, n given in the
\* two's complement reading: for -31 <= n < 0 the sum wraps to 0..30.
SizeofGat(n) ==
    IF n >= 1 - WordBits THEN (n + (WordBits - 1)) \div WordBits
    ELSE U32Shr5 + ((n + (WordBits - 1)) \div WordBits)

\* SIZEOF_MM_GRAN(n), stored into the unsigned int gran_head.  SIZEOF_GAT(n) = 0
\* makes SIZEOF_GAT(n) - 1 the unsigned 0xffffffff, and 24 + 4 * 0xffffffff
\* truncated to 32 bits is 20, which is what the formula gives with -1.
SizeofMmGranOf(n) == SizeofMmGran + SizeofWord * (SizeofGat(n) - 1)

\* The assert that opens gran_initialize.
InitParamsOk(r) ==
    /\ r.heapstart # NULL
    /\ r.heapsize > 0
    /\ r.log2gran > 0
    /\ r.log2gran < 32
    /\ r.log2gran >= r.log2align

\* First pass: the geometry of the span as given.
FirstPassStart(r) == AlignUp(r.heapstart, r.log2align)
HeapEnd(r) == r.heapstart + r.heapsize
FirstPassNGranules(r) == NGranulesOf(HeapEnd(r), FirstPassStart(r), r.log2gran)

\* The control block and table are carved from the start of the span.
GranHead(r) == SizeofMmGranOf(FirstPassNGranules(r))

\* Mutant: the second pass starts where the first did.
SecondPassStartNoHead(r) == AlignUp(r.heapstart, r.log2align)

\* Mutant: the start is not aligned again after the carve-out.
SecondPassStartUnaligned(r) == r.heapstart + GranHead(r)

\* Second pass: heapstart += gran_head; heapsize -= gran_head (size_t, wraps);
\* heapend = heapstart + heapsize is the original end again.
SecondPassStart(r) == AlignUp(r.heapstart + GranHead(r), r.log2align)
SecondPassNGranules(r) == NGranulesOf(HeapEnd(r), SecondPassStart(r), r.log2gran)

\* What gran_initialize stores; ngranules is a uint16_t field.
InitializedGran(r) ==
    [log2gran  |-> r.log2gran,
     ngranules |-> SecondPassNGranules(r) % U16Mod,
     heapstart |-> SecondPassStart(r)]

\* Number of uint32_t words between gat[0] and the end of the carved block.
GatWordsReserved(r) == (GranHead(r) - GatOffset) \div SizeofWord

(***************************************************************************)
(* gran_alloc                                                              *)
(***************************************************************************)
\* Mutant: the size is not rounded up to whole granules.
NGranOfSizeFloor(size, log2g) == size \div Pow2(log2g)

\* ngranules = (size + tmpmask) >> log2gran with tmpmask = (1 << log2gran) - 1
NGranOfSize(size, log2g) == (size + (Pow2(log2g) - 1)) \div Pow2(log2g)

\* assert(gran != NULL && size <= 32 * (1 << gran->log2gran))
SizeOk(g, size) == size <= MaxRun * Pow2(g.log2gran)

\* Mutant: the loop does not stop where the table ends.
ScanCondNoLimit(g, granidx, bitidx, ngr) == bitidx < WordBits

\* Mutant: the loop admits a run that ends one granule past the table.
ScanCondOneOver(g, granidx, bitidx, ngr) ==
    bitidx < WordBits /\ granidx + bitidx + ngr <= g.ngranules + 1

\* The condition of the inner for loop.
ScanCond(g, granidx, bitidx, ngr) ==
    bitidx < WordBits /\ granidx + bitidx + ngr <= g.ngranules

\* Mutant: the cascade tests for some set bit where it should test for all.
SkipOnesAnySet(curr) ==
    IF And(curr, LowMask(16)) # {} THEN 16
    ELSE IF And(curr, LowMask(8)) # {} THEN 8
    ELSE IF And(curr, LowMask(4)) # {} THEN 4
    ELSE IF And(curr, LowMask(2)) # {} THEN 2
    ELSE 0

\* The 16/8/4/2 cascade: the shift it selects, 0 when the low two bits of curr
\* are not both set.
SkipOnes(curr) ==
    IF And(curr, LowMask(16)) = LowMask(16) THEN 16
    ELSE IF And(curr, LowMask(8)) = LowMask(8) THEN 8
    ELSE IF And(curr, LowMask(4)) = LowMask(4) THEN 4
    ELSE IF And(curr, LowMask(2)) = LowMask(2) THEN 2
    ELSE 0

\* Mutant: the test of the run is left out.
RunIsFreeAlways(curr, mask) == TRUE

\* (curr & mask) == 0
RunIsFree(curr, mask) == And(curr, mask) = {}

\* The inner loop over the bits of one GAT entry: the allocation address, or
\* NULL when the loop ends without one.
RECURSIVE ScanEntry(_, _, _, _, _, _, _)
ScanEntry(g, curr, next, bitidx, alloc, granidx, ngr) ==
    IF ~ScanCond(g, granidx, bitidx, ngr) THEN NULL
    ELSE IF curr = AllOnes THEN NULL
    ELSE LET shift == IF SkipOnes(curr) # 0 THEN SkipOnes(curr)
                      ELSE IF RunIsFree(curr, RunMask(ngr, {})) THEN 0
                      ELSE 1
         IN  IF shift = 0 THEN alloc
             ELSE ScanEntry(g,
                            Or(Shr(curr, shift), Shl(next, WordBits - shift)),
                            Shr(next, shift),
                            bitidx + shift,
                            alloc + shift * Pow2(g.log2gran),
                            granidx, ngr)

\* The 'next' word fetched for the entry at granidx: the test the code makes
\* is granidx < ngranules, which the outer loop has already established.
NextEntry(g, t, granidx) ==
    IF granidx < g.ngranules THEN t[(granidx \div WordBits) + 1] ELSE AllOnes

\* The outer loop over the GAT entries, from granidx on.
RECURSIVE ScanTable(_, _, _, _)
ScanTable(g, t, granidx, ngr) ==
    IF ~(granidx < g.ngranules) THEN NULL
    ELSE LET curr == t[granidx \div WordBits]
         IN  IF curr = AllOnes THEN ScanTable(g, t, granidx + WordBits, ngr)
             ELSE LET r == ScanEntry(g, curr, NextEntry(g, t, granidx), 0,
                                     g.heapstart + granidx * Pow2(g.log2gran),
                                     granidx, ngr)
                  IN  IF r # NULL THEN r
                      ELSE ScanTable(g, t, granidx + WordBits, ngr)

\* The indices of the GAT words the scan reads: curr of every entry it comes
\* to, and next of every entry that is not all ones.
RECURSIVE ScanReads(_, _, _, _)
ScanReads(g, t, granidx, ngr) ==
    IF ~(granidx < g.ngranules) THEN {}
    ELSE LET gatidx == granidx \div WordBits
             curr == t[gatidx]
         IN  IF curr = AllOnes
             THEN {gatidx} \cup ScanReads(g, t, granidx + WordBits, ngr)
             ELSE LET rd == {gatidx} \cup (IF granidx < g.ngranules
                                           THEN {gatidx + 1} ELSE {})
                      r == ScanEntry(g, curr, NextEntry(g, t, granidx), 0,
                                     g.heapstart + granidx * Pow2(g.log2gran),
                                     granidx, ngr)
                  IN  IF r # NULL THEN rd
                      ELSE rd \cup ScanReads(g, t, granidx + WordBits, ngr)

\* granno = (alloc - heapstart) >> log2gran
GranNo(g, addr) == (addr - g.heapstart) \div Pow2(g.log2gran)

\* Mutant: the run length is not reduced by what the first entry took.
SecondEntryMaskWhole(ngr, avail) == RunMask(ngr, {})

\* ngranules -= avail; gatmask = 0xffffffff >> (32 - ngranules): the mask for
\* the second GAT entry of a run that spans two.  ngr > avail here.
SecondEntryMask(ngr, avail) == RunMask(ngr - avail, {})

\* gran_mark_allocated: the table it leaves and the assertion that failed, if
\* any.  ngr is at least 1 on every call gran_alloc makes.
MarkAllocated(g, t, alloc, ngr) ==
    LET granno == GranNo(g, alloc)
        gatidx == granno \div WordBits
        gatbit == granno % WordBits
        avail  == WordBits - gatbit
    IN  IF ngr > avail
        THEN LET m1 == Shl(AllOnes, gatbit)
                 m2 == SecondEntryMask(ngr, avail)
                 t1 == [t EXCEPT ![gatidx] = Or(@, m1)]
             IN  IF And(t[gatidx], m1) # {}
                 THEN [gat |-> t, fault |-> "gran_mark_allocated:238"]
                 ELSE IF And(t1[gatidx + 1], m2) # {}
                 THEN [gat |-> t1, fault |-> "gran_mark_allocated:245"]
                 ELSE [gat |-> [t1 EXCEPT ![gatidx + 1] = Or(@, m2)],
                       fault |-> "none"]
        ELSE LET m == Shl(RunMask(ngr, {}), gatbit)
             IN  IF And(t[gatidx], m) # {}
                 THEN [gat |-> t, fault |-> "gran_mark_allocated:256"]
                 ELSE [gat |-> [t EXCEPT ![gatidx] = Or(@, m)], fault |-> "none"]

\* gran_alloc after its first line: sizeok is what the assertion of line 74
\* found, positive is size > 0, ngr the granule count of line 80.
AllocFrom(g, t, sizeok, positive, ngr) ==
    IF ~sizeok THEN [ret |-> NULL, gat |-> t, fault |-> "gran_alloc:74"]
    ELSE IF ~positive THEN [ret |-> NULL, gat |-> t, fault |-> "none"]
    ELSE IF ~(ngr <= MaxRun)
         THEN [ret |-> NULL, gat |-> t, fault |-> "gran_alloc:83"]
    ELSE LET a == ScanTable(g, t, 0, ngr)
         IN  IF a = NULL THEN [ret |-> NULL, gat |-> t, fault |-> "none"]
             ELSE LET m == MarkAllocated(g, t, a, ngr)
                  IN  [ret |-> IF m.fault = "none" THEN a ELSE NULL,
                       gat |-> m.gat, fault |-> m.fault]

\* gran_alloc(gran, size): the returned address, the table and the fault.
\* For log2gran <= 25, where 32 * (1 << log2gran) fits an int.
Alloc(g, t, size) ==
    AllocFrom(g, t, SizeOk(g, size), size > 0, NGranOfSize(size, g.log2gran))

\* Sizes beyond 2^31 are written q * 2^log2gran + r with 0 <= r < 2^log2gran.
\* 32 * (1 << log2gran) is an int product: up to log2gran = 25 it is the
\* number itself; from 26 on it overflows, which C leaves undefined.  The
\* outcomes: "exact" (a build that forms the product in a wider register) and
\* "wrapped" (the product reduced to 32 bits and sign-extended to size_t).
SizeLimitOutcomes(log2g) ==
    IF log2g + IntShiftOf32 < IntBits - 1 THEN {"exact"} ELSE {"exact", "wrapped"}

\* size <= 32 * (1 << log2gran) for size = q * 2^log2gran + r.  Wrapped, the
\* product is -2^31 for log2gran = 26, which converts to 2^64 - 2^31, above
\* every size formed here, and 0 for log2gran >= 27.
SizeOkWide(log2g, q, r, lim) ==
    IF lim = "exact" THEN q < MaxRun \/ (q = MaxRun /\ r = 0)
    ELSE IF log2g + IntShiftOf32 = IntBits - 1 THEN TRUE
    ELSE q = 0 /\ r = 0

\* (size + tmpmask) >> log2gran for size = q * 2^log2gran + r; q is far below
\* 2^32 here, so the unsigned int holds the count.
NGranWide(q, r) == q + (IF r > 0 THEN 1 ELSE 0)

\* gran_alloc(gran, q * 2^log2gran + r)
AllocWide(g, t, q, r, lim) ==
    AllocFrom(g, t, SizeOkWide(g.log2gran, q, r, lim), q > 0 \/ r > 0,
              NGranWide(q, r))

(***************************************************************************)
(* gran_free                                                               *)
(***************************************************************************)
\* Mutant: the assertion passes when any of the bits is set.
BitsAllSetAny(word, mask) == mask = {} \/ And(word, mask) # {}

\* Mutant: the assertion looks at the first bit of the run only.
BitsAllSetFirst(word, mask) ==
    \A b \in mask : (\A c \in mask : b <= c) => b \in word

\* (gran->gat[i] & gatmask) == gatmask, the condition gran_free asserts
BitsAllSet(word, mask) == And(word, mask) = mask

\* Mutant: the bits are cleared from the start of the run to the end of the
\* entry.
ClearBitsToEnd(word, mask) == {b \in word : \A c \in mask : b < c}

\* gran->gat[i] &= ~gatmask
ClearBits(word, mask) == And(word, Not(mask))

\* gran_free(gran, memory, size): the table it leaves and the assertion that
\* failed, if any.  ub is the value of 0xffffffff >> 32, formed when size is 0.
Free(g, t, memory, size, ub) ==
    IF ~(memory # NULL /\ SizeOk(g, size))
    THEN [gat |-> t, fault |-> "gran_free:161"]
    ELSE
    LET granno == GranNo(g, memory)
        gatidx == granno \div WordBits
        gatbit == granno % WordBits
        ngr    == NGranOfSize(size, g.log2gran)
        avail  == WordBits - gatbit
    IN  IF ngr > avail
        THEN LET m1 == Shl(AllOnes, gatbit)
                 m2 == SecondEntryMask(ngr, avail)
                 t1 == [t EXCEPT ![gatidx] = ClearBits(@, m1)]
             IN  IF ~BitsAllSet(t[gatidx], m1)
                 THEN [gat |-> t, fault |-> "gran_free:183"]
                 ELSE IF ~BitsAllSet(t1[gatidx + 1], m2)
                 THEN [gat |-> t1, fault |-> "gran_free:190"]
                 ELSE [gat |-> [t1 EXCEPT ![gatidx + 1] = ClearBits(@, m2)],
                       fault |-> "none"]
        ELSE LET m == Shl(RunMask(ngr, ub), gatbit)
             IN  IF ~BitsAllSet(t[gatidx], m)
                 THEN [gat |-> t, fault |-> "gran_free:200"]
                 ELSE [gat |-> [t EXCEPT ![gatidx] = ClearBits(@, m)],
                       fault |-> "none"]

(***************************************************************************)
(* The callers: spans handed to gran_initialize, request sizes             *)
(***************************************************************************)
Span(start, size, lg, la) ==
    [heapstart |-> start, heapsize |-> size, log2gran |-> lg, log2align |-> la]

\* Spans large enough for the control block, on which the allocator is then
\* exercised: 37 granules of 16 bytes (two GAT words, the last partly used)
\* and 5 granules of 2 bytes.
Spans ==
    { Span(64, 624, 4, 4), Span(4, 34, 1, 0) }

\* What the memory of the span holds before gran_initialize: zeroes (a .bss
\* heap as in main) or whatever an earlier user left there.
PriorWords == { {}, {1, 17, 18} }

\* Run lengths requested of the allocator while it is exercised over several
\* calls; 33 is one granule over the limit.
RunLengths == {1, 2, 5, 16, 31, 32, 33}

\* Request sizes in bytes: zero, one byte, one byte over a granule, and whole
\* numbers of granules.
Sizes(g) ==
    {0, 1, Pow2(g.log2gran) + 1} \cup {n * Pow2(g.log2gran) : n \in RunLengths}

\* Granules whose addresses a caller that breaks the contract passes to
\* gran_free: the starts of the runs first-fit hands out for RunLengths, and
\* the neighbours of the word boundary.
ProbeGranules == {0, 1, 2, 5, 16, 31, 32, 33}

ProbeAddrs(g) ==
    {g.heapstart + i * Pow2(g.log2gran) :
        i \in {j \in ProbeGranules : j < g.ngranules}}

NoGran == [log2gran |-> 0, ngranules |-> 0, heapstart |-> 0]
\* call.prior: the live allocations at call.mem when gran_free was called.
NoCall == [op |-> "none", size |-> 0, mem |-> NULL, ret |-> NULL, prior |-> {}]
NoRound == [pending |-> {}, freed |-> {}]
NoSnap == <<>>
\* locals.size: the size main requests and frees with; locals.nfreed: how many
\* of its gran_free calls main has made.
NoLocals == [addrs |-> <<>>, nfreed |-> 0, size |-> 0]
\* frame.at: "idle" outside gran_alloc, "outer" at the test of the loop over
\* the GAT entries, "inner" at the test of the loop over the bits of one.
\* frame.visits: the GAT entries the outer loop has come to in this call;
\* frame.size: the size the call was given.
NoFrame ==
    [at |-> "idle", size |-> 0, ngranules |-> 0, granidx |-> 0, bitidx |-> 0,
     curr |-> {}, next |-> {}, alloc |-> NULL, visits |-> 0]

(***************************************************************************)
(* State machine                                                           *)
(***************************************************************************)
\* Before gran_initialize, apart from the record of the last call.
InitRest ==
    /\ pc = "start"
    /\ gran = NoGran
    /\ live = {}
    /\ fault = "none"
    /\ misuses = 0
    /\ phase = "idle"
    /\ snap = NoSnap
    /\ round = NoRound
    /\ frame = NoFrame

InitCommon ==
    /\ InitRest
    /\ call = NoCall
    /\ locals = NoLocals

Init ==
    /\ raw \in Spans
    /\ \E p \in PriorWords : gat = [w \in 0 .. (GatWordsReserved(raw) - 1) |-> p]
    /\ InitCommon

\* g_gran = gran_initialize(heapstart, heapsize, log2gran, log2align).  The
\* function writes the three fields and nothing else.
GranInitialize ==
    /\ pc = "start"
    /\ fault = "none"
    /\ IF InitParamsOk(raw)
       THEN /\ gran' = InitializedGran(raw)
            /\ pc' = "ready"
            /\ fault' = "none"
       ELSE /\ fault' = "gran_initialize:126"
            /\ UNCHANGED <<gran, pc>>
    /\ call' = [call EXCEPT !.op = "init"]
    /\ UNCHANGED <<raw, gat, live, misuses, phase, snap, round, locals, frame>>

\* Round-trip bookkeeping of a successful allocation a.
RoundAfterAlloc(a) ==
    IF phase = "allocs"
    THEN /\ round' = [round EXCEPT !.pending = @ \cup {a}]
         /\ UNCHANGED <<phase, snap>>
    ELSE /\ phase' = "idle"
         /\ snap' = NoSnap
         /\ round' = NoRound

\* Round-trip bookkeeping of a free of a: the round trip goes on while what is
\* freed is what it allocated.
RoundAfterFree(a) ==
    IF phase # "idle" /\ a \in round.pending
    THEN /\ phase' = "frees"
         /\ round' = [pending |-> round.pending \ {a},
                      freed |-> round.freed \cup {a}]
         /\ UNCHANGED snap
    ELSE /\ phase' = "idle"
         /\ snap' = NoSnap
         /\ round' = NoRound

\* p = gran_alloc(g_gran, size): the call and what the caller keeps of it.
GranAllocCall(size) ==
    /\ pc = "ready"
    /\ fault = "none"
    /\ LET r == Alloc(gran, gat, size)
       IN  /\ gat' = r.gat
           /\ fault' = r.fault
           /\ call' = [NoCall EXCEPT !.op = "alloc", !.size = size, !.ret = r.ret]
           /\ IF r.fault = "none" /\ r.ret # NULL
              THEN /\ live' = live \cup {[addr |-> r.ret, size |-> size]}
                   /\ RoundAfterAlloc([addr |-> r.ret, size |-> size])
              ELSE UNCHANGED <<live, phase, snap, round>>
    /\ UNCHANGED <<pc, raw, gran, misuses, frame>>

\* p = gran_alloc(g_gran, size) by a caller that holds fewer than MaxLive
\* allocations.
GranAlloc(size) ==
    /\ misuses < MaxMisuse
    /\ Cardinality(live) < MaxLive
    /\ GranAllocCall(size)
    /\ UNCHANGED locals

\* gran_free(g_gran, a.addr, a.size) for a live allocation a
GranFree(a, ub) ==
    /\ pc = "ready"
    /\ fault = "none"
    /\ misuses < MaxMisuse
    /\ a \in live
    /\ LET r == Free(gran, gat, a.addr, a.size, ub)
       IN  /\ gat' = r.gat
           /\ fault' = r.fault
           /\ call' = [NoCall EXCEPT !.op = "free", !.size = a.size, !.mem = a.addr,
                                    !.prior = {b \in live : b.addr = a.addr}]
           /\ IF r.fault = "none"
              THEN live' = live \ {a} /\ RoundAfterFree(a)
              ELSE UNCHANGED <<live, phase, snap, round>>
    /\ UNCHANGED <<pc, raw, gran, misuses, locals, frame>>

\* gran_free(g_gran, memory, size) by a caller that breaks the contract: the
\* pair is not one that gran_alloc handed out and that is still live.
GranFreeAny(memory, size, ub) ==
    /\ pc = "ready"
    /\ fault = "none"
    /\ misuses < MaxMisuse
    /\ [addr |-> memory, size |-> size] \notin live
    /\ LET r == Free(gran, gat, memory, size, ub)
       IN  /\ gat' = r.gat
           /\ fault' = r.fault
           /\ call' = [NoCall EXCEPT !.op = "free", !.size = size, !.mem = memory,
                                    !.prior = {b \in live : b.addr = memory}]
           /\ live' = IF r.fault = "none"
                      THEN {b \in live : b.addr # memory}
                      ELSE live
    /\ misuses' = misuses + 1
    /\ phase' = "idle"
    /\ snap' = NoSnap
    /\ round' = NoRound
    /\ UNCHANGED <<pc, raw, gran, locals, frame>>

\* The caller notes the table before a run of allocations it will free again.
Mark ==
    /\ pc = "ready"
    /\ fault = "none"
    /\ phase = "idle"
    /\ misuses < MaxMisuse
    /\ Cardinality(live) < MaxLive
    /\ phase' = "allocs"
    /\ snap' = gat
    /\ round' = NoRound
    /\ call' = [NoCall EXCEPT !.op = "mark"]
    /\ UNCHANGED <<pc, raw, gran, gat, live, fault, misuses, locals, frame>>

Next ==
    \/ GranInitialize
    \/ \E size \in Sizes(gran) : GranAlloc(size)
    \/ \E a \in live, ub \in UBShift32 : GranFree(a, ub)

Spec == Init /\ [][Next]_vars

\* gran = (struct mm_gran *)heapstart: the control block is the start of the
\* span; the malloc of the block is compiled out.
GranBlock(r) == r.heapstart

\* free() of a pointer that malloc did not return is undefined: the C library
\* may stop the program or go on with its heap damaged.
FreeOutcomes == {"none", "free:invalid pointer"}

\* gran_release(g_gran): assert(gran != NULL); free(gran).  call.mem is the
\* pointer handed to free.
GranRelease(outcome) ==
    /\ pc = "ready"
    /\ fault = "none"
    /\ pc' = "released"
    /\ fault' = outcome
    /\ call' = [NoCall EXCEPT !.op = "release", !.mem = GranBlock(raw)]
    /\ UNCHANGED <<raw, gran, gat, live, misuses, phase, snap, round, locals,
                   frame>>

\* The same program with a caller that ends with gran_release.
NextRelease ==
    \/ Next
    \/ \E outcome \in FreeOutcomes : GranRelease(outcome)

SpecRelease == Init /\ [][NextRelease]_vars

\* The same program on memory that is zero when gran_initialize gets it.
InitZero ==
    /\ raw \in Spans
    /\ gat = [w \in 0 .. (GatWordsReserved(raw) - 1) |-> {}]
    /\ InitCommon

SpecZero == InitZero /\ [][Next]_vars

\* The same program with a caller that also frees what it should not.
NextMisuse ==
    \/ Next
    \/ \E memory \in ProbeAddrs(gran) \cup {NULL}, size \in Sizes(gran),
          ub \in UBShift32 : GranFreeAny(memory, size, ub)

SpecMisuse == Init /\ [][NextMisuse]_vars

\* The same program with the round trips marked.
NextRoundTrip ==
    \/ Next
    \/ Mark

SpecRoundTrip == Init /\ [][NextRoundTrip]_vars

(***************************************************************************)
(* gran_alloc as a function of the table: one call on each table of a      *)
(* family, with every run length                                           *)
(***************************************************************************)
\* 37, 64 and 5 granules.
ScanSpans ==
    { Span(64, 624, 4, 4), Span(64, 1056, 4, 0), Span(4, 34, 1, 0) }

PrefixLens == {0, 1, 3, 15, 16, 30, 31, 32, 33}
HoleLens == {0, 1, 2, 16, 31, 32}

\* The memory words 0 .. nwords-1 holding the granule set S.
TableOf(S, nwords) ==
    [w \in 0 .. (nwords - 1) |-> {b \in 0 .. (WordBits - 1) : WordBits * w + b \in S}]

\* Tables in which granules 0 .. p-1 are allocated, followed by h free
\* granules and one allocated granule, or by free granules only.  Such a table
\* is what allocations of p granules in all, one more after h others and the
\* release of those h leave; it is also memory gran_initialize can be given.
ScanTables(nwords) ==
    {TableOf(0 .. (p - 1), nwords) : p \in PrefixLens}
        \cup {TableOf((0 .. (p - 1)) \cup {p + h}, nwords) :
                 p \in PrefixLens, h \in HoleLens}

AllSizes(g) ==
    {0, 1, Pow2(g.log2gran) + 1}
        \cup {n * Pow2(g.log2gran) : n \in 1 .. (MaxRun + 1)}

InitScan ==
    /\ raw \in ScanSpans
    /\ gat \in ScanTables(GatWordsReserved(raw))
    /\ InitCommon

\* The first call after gran_initialize.
GranAllocFirst(size) ==
    /\ call.op = "init"
    /\ GranAlloc(size)

NextScan ==
    \/ GranInitialize
    \/ \E size \in AllSizes(gran) : GranAllocFirst(size)

SpecScan == InitScan /\ [][NextScan]_vars

(***************************************************************************)
(* gran_initialize as a function of its arguments                          *)
(***************************************************************************)
GeomStarts == {0, 1, 64, 4096}
GeomSizes == {0, 1, 16, 23, 24, 28, 100, 672, 4096, 70000, 140000}
GeomLog2Gran == {0, 1, 4, 12, 32}
GeomLog2Align == {0, 1, 4, 12, 13}

GeomSpans ==
    {Span(s, z, lg, la) :
        s \in GeomStarts, z \in GeomSizes, lg \in GeomLog2Gran, la \in GeomLog2Align}

\* The table memory is left out here: gran_initialize neither reads nor
\* writes it.
InitGeom ==
    /\ raw \in GeomSpans
    /\ gat = [w \in {} |-> {}]
    /\ InitCommon

NextGeom == GranInitialize

SpecGeom == InitGeom /\ [][NextGeom]_vars

(***************************************************************************)
(* gran_alloc on instances with large granules: one call after             *)
(* gran_initialize, sizes given as q granules and r bytes                   *)
(***************************************************************************)
WideLog2Gran == {4, 12, 25, 26, 27, 28}
WideGranules == 3

\* A span that leaves WideGranules granules after the control block.
WideSpans ==
    {Span(64, WideGranules * Pow2(lg) + SizeofMmGran, lg, 0) : lg \in WideLog2Gran}

WideQ == {0, 1, 2, 3, 4, 31, 32, 33}
WideR == {0, 1}

NoCallWide == [NoCall EXCEPT !.size = [q |-> 0, r |-> 0]]

InitWide ==
    /\ raw \in WideSpans
    /\ \E p \in PriorWords : gat = [w \in 0 .. (GatWordsReserved(raw) - 1) |-> p]
    /\ InitRest
    /\ call = NoCallWide
    /\ locals = NoLocals

\* p = gran_alloc(g_gran, q * 2^log2gran + r), the first call after
\* gran_initialize.  call.size and the sizes in live are the pairs [q, r].
GranAllocWide(q, r, lim) ==
    /\ pc = "ready"
    /\ fault = "none"
    /\ call.op = "init"
    /\ LET z == [q |-> q, r |-> r]
           a == AllocWide(gran, gat, q, r, lim)
       IN  /\ gat' = a.gat
           /\ fault' = a.fault
           /\ call' = [NoCallWide EXCEPT !.op = "alloc", !.size = z, !.ret = a.ret]
           /\ live' = IF a.fault = "none" /\ a.ret # NULL
                      THEN live \cup {[addr |-> a.ret, size |-> z]}
                      ELSE live
    /\ UNCHANGED <<pc, raw, gran, misuses, phase, snap, round, locals, frame>>

NextWide ==
    \/ GranInitialize
    \/ \E q \in WideQ, r \in WideR, lim \in SizeLimitOutcomes(gran.log2gran) :
           GranAllocWide(q, r, lim)

SpecWide == InitWide /\ [][NextWide]_vars

(***************************************************************************)
(* main: gran_initialize on a zeroed heap, successive gran_alloc calls of  *)
(* one size, then gran_free of addr1 and addr2                             *)
(***************************************************************************)
PageSize == 4096
PageShift == 12
HeapSize == 1048576
MainRequest == 1024
MainAllocs == 4
MainFrees == 2

\* The most gran_alloc calls a run of the program makes before it frees.
MaxAllocs == 34

\* Where the linker may put heap[], which is aligned to PAGE_SIZE.
HeapBases == {PageSize, 2 * PageSize}

\* main's heap, the smaller heaps of Spans, and a heap of 10 granules of 16
\* bytes that starts off its alignment of 8.
MainSpans ==
    {Span(b, HeapSize, PageShift, PageShift) : b \in HeapBases}
        \cup Spans \cup {Span(60, 200, 4, 3)}

\* Request sizes of at most one granule: a byte, a quarter granule (1024 in
\* main), a whole granule.
MainSizes(log2g) == {1, Pow2(log2g), IF log2g >= 2 THEN Pow2(log2g - 2) ELSE 1}

\* heap[] is in .bss: the table memory is zero.
InitMain ==
    /\ raw \in MainSpans
    /\ gat = [w \in 0 .. (GatWordsReserved(raw) - 1) |-> {}]
    /\ InitRest
    /\ call = NoCall
    /\ \E z \in MainSizes(raw.log2gran) : locals = [NoLocals EXCEPT !.size = z]

\* addrN = gran_alloc(g_gran, size).  main does not look at the result.
MainAlloc ==
    /\ locals.nfreed = 0
    /\ Len(locals.addrs) < MaxAllocs
    /\ GranAllocCall(locals.size)
    /\ locals' = [locals EXCEPT !.addrs = Append(@, call'.ret)]

\* gran_free(g_gran, addr1, size), then gran_free(g_gran, addr2, size)
MainFree(ub) ==
    /\ pc = "ready"
    /\ fault = "none"
    /\ Len(locals.addrs) >= MainFrees
    /\ locals.nfreed < MainFrees
    /\ LET memory == locals.addrs[locals.nfreed + 1]
           r == Free(gran, gat, memory, locals.size, ub)
       IN  /\ gat' = r.gat
           /\ fault' = r.fault
           /\ call' = [NoCall EXCEPT !.op = "free", !.size = locals.size,
                                    !.mem = memory,
                                    !.prior = {b \in live : b.addr = memory}]
           /\ live' = IF r.fault = "none"
                      THEN live \ {[addr |-> memory, size |-> locals.size]}
                      ELSE live
    /\ locals' = [locals EXCEPT !.nfreed = @ + 1]
    /\ UNCHANGED <<pc, raw, gran, misuses, phase, snap, round, frame>>

NextMain ==
    \/ GranInitialize
    \/ MainAlloc
    \/ \E ub \in UBShift32 : MainFree(ub)

SpecMain == InitMain /\ [][NextMain]_vars

(***************************************************************************)
(* gran_alloc one loop pass at a time: the first call after                *)
(* gran_initialize, on each table of a family                              *)
(***************************************************************************)
\* The spans of ScanSpans and one that leaves no granule after the control
\* block (64, 37, 5 and 0 granules).
StepSpans ==
    ScanSpans \cup { Span(4, 25, 1, 0) }

\* Words that fill a whole table: all granules allocated, every other granule
\* allocated (no free run of two, and no two set bits for the cascade to
\* skip), and what an earlier user of the memory left.
StepWords ==
    { AllOnes, {b \in AllOnes : b % 2 = 0} } \cup PriorWords

StepTables(nwords) ==
    ScanTables(nwords) \cup {[w \in 0 .. (nwords - 1) |-> p] : p \in StepWords}

InitStep ==
    /\ raw \in StepSpans
    /\ gat \in StepTables(GatWordsReserved(raw))
    /\ InitCommon

\* The shift one pass of the inner loop selects: that of the cascade, else 1
\* when the run does not start here; 0 stands for the branch that returns.
PassShift(curr, ngr) ==
    IF SkipOnes(curr) # 0 THEN SkipOnes(curr)
    ELSE IF RunIsFree(curr, RunMask(ngr, {})) THEN 0
    ELSE 1

\* Mutant: the pass leaves bitidx where it was.
AdvanceBitStuck(bitidx, shift) == bitidx

\* bitidx += shift
AdvanceBit(bitidx, shift) == bitidx + shift

\* granidx += 32, at the end of a pass of the outer loop and on 'continue'
NextGranidx(granidx) == granidx + WordBits

\* What the caller sees when the call is over.
Returned(size, ret) == [NoCall EXCEPT !.op = "alloc", !.size = size, !.ret = ret]

\* gran_alloc(g_gran, size) up to the outer loop: the assertions on the size,
\* the granule count and granidx = 0.
AllocEnter(size) ==
    /\ pc = "ready"
    /\ fault = "none"
    /\ frame.at = "idle"
    /\ call.op = "init"
    /\ LET ngr == NGranOfSize(size, gran.log2gran)
       IN  IF ~SizeOk(gran, size)
           THEN /\ fault' = "gran_alloc:74"
                /\ call' = Returned(size, NULL)
                /\ frame' = [NoFrame EXCEPT !.size = size]
           ELSE IF ~(size > 0)
           THEN /\ fault' = "none"
                /\ call' = Returned(size, NULL)
                /\ frame' = [NoFrame EXCEPT !.size = size]
           ELSE IF ~(ngr <= MaxRun)
           THEN /\ fault' = "gran_alloc:83"
                /\ call' = Returned(size, NULL)
                /\ frame' = [NoFrame EXCEPT !.size = size, !.ngranules = ngr]
           ELSE /\ fault' = "none"
                /\ call' = [NoCall EXCEPT !.op = "enter", !.size = size]
                /\ frame' = [NoFrame EXCEPT !.at = "outer", !.size = size,
                                            !.ngranules = ngr]
    /\ UNCHANGED <<pc, raw, gran, gat, live, misuses, phase, snap, round, locals>>

\* The test of the outer loop and the start of its body: the loop ends and
\* the call returns NULL, or curr is fetched and either is all ones
\* ('continue') or the inner loop is set up.
OuterStep ==
    /\ frame.at = "outer"
    /\ IF ~(frame.granidx < gran.ngranules)
       THEN /\ frame' = [frame EXCEPT !.at = "idle"]
            /\ call' = Returned(frame.size, NULL)
       ELSE LET curr == gat[frame.granidx \div WordBits]
            IN  /\ frame' =
                       IF curr = AllOnes
                       THEN [frame EXCEPT !.granidx = NextGranidx(@),
                                          !.visits = @ + 1,
                                          !.curr = curr]
                       ELSE [frame EXCEPT !.at = "inner",
                                          !.visits = @ + 1,
                                          !.curr = curr,
                                          !.next = NextEntry(gran, gat, frame.granidx),
                                          !.alloc = gran.heapstart
                                                      + frame.granidx * Pow2(gran.log2gran),
                                          !.bitidx = 0]
                /\ UNCHANGED call
    /\ UNCHANGED <<pc, raw, gran, gat, live, fault, misuses, phase, snap, round,
                   locals>>

\* The test of the inner loop and one pass of its body: the loop ends or
\* breaks and the outer loop goes on, or the run is found, marked and
\* returned, or the 64 bit shift moves on by 'shift' bits.
InnerPass ==
    /\ frame.at = "inner"
    /\ IF \/ ~ScanCond(gran, frame.granidx, frame.bitidx, frame.ngranules)
          \/ frame.curr = AllOnes
       THEN /\ frame' = [frame EXCEPT !.at = "outer", !.granidx = NextGranidx(@)]
            /\ UNCHANGED <<gat, fault, call, live>>
       ELSE LET shift == PassShift(frame.curr, frame.ngranules)
            IN  IF shift = 0
                THEN LET m == MarkAllocated(gran, gat, frame.alloc, frame.ngranules)
                     IN  /\ gat' = m.gat
                         /\ fault' = m.fault
                         /\ call' = Returned(frame.size,
                                             IF m.fault = "none" THEN frame.alloc
                                             ELSE NULL)
                         /\ live' = IF m.fault = "none"
                                    THEN live \cup {[addr |-> frame.alloc,
                                                     size |-> frame.size]}
                                    ELSE live
                         /\ frame' = [frame EXCEPT !.at = "idle"]
                ELSE /\ frame' =
                            [frame EXCEPT
                                !.alloc = @ + shift * Pow2(gran.log2gran),
                                !.curr = Or(Shr(@, shift),
                                            Shl(frame.next, WordBits - shift)),
                                !.next = Shr(@, shift),
                                !.bitidx = AdvanceBit(@, shift)]
                     /\ UNCHANGED <<gat, fault, call, live>>
    /\ UNCHANGED <<pc, raw, gran, misuses, phase, snap, round, locals>>

NextStep ==
    \/ GranInitialize
    \/ \E size \in AllSizes(gran) : AllocEnter(size)
    \/ OuterStep
    \/ InnerPass

\* A call is not interrupted: once inside gran_alloc the program goes on to
\* its next loop test.
SpecStep ==
    InitStep /\ [][NextStep]_vars /\ WF_vars(OuterStep \/ InnerPass)

(***************************************************************************)
(* Vocabulary of the properties                                            *)
(***************************************************************************)
\* ceil(size / 2^granule_log2)
Granules(size) ==
    IF size % Pow2(gran.log2gran) = 0 THEN size \div Pow2(gran.log2gran)
    ELSE (size \div Pow2(gran.log2gran)) + 1

\* The granule that starts at addr.
IndexOf(addr) == (addr - gran.heapstart) \div Pow2(gran.log2gran)

AddrOf(i) == gran.heapstart + i * Pow2(gran.log2gran)

\* heap_start + granule_count * 2^granule_log2
HeapLimit == AddrOf(gran.ngranules)

\* Bit i of table t, bit 0 of word 0 first.
TableBit(t, i) == (i % WordBits) \in t[i \div WordBits]

\* The granule range [index, index + ngranules) of a call or allocation.
RunAt(addr, size) == IndexOf(addr) .. (IndexOf(addr) + Granules(size) - 1)

\* Granules i .. i+n-1 exist and are all free in t.
RunFits(t, i, n) ==
    /\ i + n <= gran.ngranules
    /\ \A k \in i .. (i + n - 1) : ~TableBit(t, k)

\* The address first-fit gives for n granules in t, NULL when there is none.
FirstFit(t, n) ==
    IF \E i \in 0 .. (gran.ngranules - 1) : RunFits(t, i, n)
    THEN AddrOf(CHOOSE i \in 0 .. (gran.ngranules - 1) :
                    /\ RunFits(t, i, n)
                    /\ \A j \in 0 .. (i - 1) : ~RunFits(t, j, n))
    ELSE NULL

\* Every granule of the heap is allocated in t.
Exhausted(t) == \A i \in 0 .. (gran.ngranules - 1) : TableBit(t, i)

\* The words of the granule table proper.
TableWords == 0 .. (((gran.ngranules + WordBits - 1) \div WordBits) - 1)

(***************************************************************************)
(* C1  No two live allocations share a granule: the granule ranges of the  *)
(* allocations handed out by gran_alloc and not yet given back with their  *)
(* own address and size are pairwise disjoint.                             *)
(***************************************************************************)
C1_LiveRunsDisjoint ==
    \A a \in live, b \in live :
        a # b => RunAt(a.addr, a.size) \cap RunAt(b.addr, b.size) = {}

\* An allocation placed below a live one, in granules an earlier free gave
\* back: the table holds nothing but the two live runs.
C1_Witness ==
    /\ call.op = "alloc"
    /\ call.ret # NULL
    /\ Cardinality(live) = 2
    /\ \E a \in live : a.addr > call.ret
    /\ \A i \in 0 .. (gran.ngranules - 1) :
           TableBit(gat, i) => \E a \in live : i \in RunAt(a.addr, a.size)

(***************************************************************************)
(* C2  gran_alloc is first-fit and complete: a request of n granules,      *)
(* 1 <= n <= 32, returns the address of the lowest index i whose granules  *)
(* i .. i+n-1 are all free with i + n <= granule_count, also when the run  *)
(* crosses a word boundary, and returns NULL only when there is no such i. *)
(***************************************************************************)
C2_FirstFit ==
    [][(call'.op = "alloc" /\ Granules(call'.size) \in 1 .. MaxRun)
          => /\ fault' = "none"
             /\ call'.ret = FirstFit(gat, Granules(call'.size))]_vars

\* A run that crosses from word 0 into word 1, found above a free granule
\* that was too short a run.
C2_Witness ==
    /\ call.op = "alloc"
    /\ call.ret # NULL
    /\ IndexOf(call.ret) < WordBits
    /\ IndexOf(call.ret) + Granules(call.size) > WordBits
    /\ \E j \in 0 .. (IndexOf(call.ret) - 1) : ~TableBit(gat, j)

(***************************************************************************)
(* C3  Every non-NULL address gran_alloc returns lies in the heap          *)
(* [heap_start, heap_start + granule_count * 2^granule_log2), and the run  *)
(* allocated there ends at or before the end of the heap.                  *)
(***************************************************************************)
C3_AllocInHeap ==
    (call.op = "alloc" /\ call.ret # NULL)
        => /\ gran.heapstart <= call.ret
           /\ call.ret < HeapLimit
           /\ call.ret + Granules(call.size) * Pow2(gran.log2gran) <= HeapLimit

\* A run that ends exactly where the heap ends.
C3_Witness ==
    /\ call.op = "alloc"
    /\ call.ret > gran.heapstart
    /\ call.ret + Granules(call.size) * Pow2(gran.log2gran) = HeapLimit

(***************************************************************************)
(* C4  Round trip: successful gran_alloc calls followed by gran_free of    *)
(* each returned address with its size leave every word of the granule     *)
(* table as it was before the first of them.                               *)
(***************************************************************************)
C4_RoundTrip ==
    (phase = "frees" /\ round.pending = {}) => gat = snap

\* Two allocations made and freed again, in a table that was not empty.
C4_Witness ==
    /\ phase = "frees"
    /\ round.pending = {}
    /\ Cardinality(round.freed) = 2
    /\ \E w \in DOMAIN gat : gat[w] # {}

(***************************************************************************)
(* C5  As claimed: gran_free of an allocated address with a size that      *)
(* rounds to another number of granules than the allocation's always       *)
(* fails an assertion.                                                     *)
(***************************************************************************)
SizeMismatch(c, lv) ==
    /\ c.op = "free"
    /\ \E a \in lv : a.addr = c.mem /\ Granules(a.size) # Granules(c.size)

C6_TableZeroAfterInit ==
    (pc = "ready" /\ call.op = "init") => \A w \in TableWords : gat[w] = {}

(***************************************************************************)
(* C7  As claimed: for every span with raw_size > 0 and valid granule and  *)
(* alignment exponents, gran_initialize stores a heap_start that is a      *)
(* multiple of 2^alignment_log2 and a granule_count with                   *)
(* heap_start + granule_count * 2^granule_log2 <= raw_start + raw_size.    *)
(***************************************************************************)
C7_GeometryInSpan ==
    (pc = "ready" /\ call.op = "init")
        => /\ gran.heapstart % Pow2(raw.log2align) = 0
           /\ gran.heapstart + gran.ngranules * Pow2(gran.log2gran)
                  <= raw.heapstart + raw.heapsize

(***************************************************************************)
(* C8  As claimed: with every granule allocated, gran_alloc of any size    *)
(* returns NULL and fails no assertion.                                    *)
(***************************************************************************)
C8_ExhaustedAnySize ==
    [][(call'.op = "alloc" /\ Exhausted(gat))
          => (call'.ret = NULL /\ fault' = "none")]_vars

(***************************************************************************)
(* C8 as amended: with every granule allocated, gran_alloc of any size of  *)
(* at most 32 granules returns NULL and fails no assertion, also when the  *)
(* last table word is only partly used.                                    *)
(***************************************************************************)
C8_ExhaustedReturnsNull ==
    [][(call'.op = "alloc" /\ Exhausted(gat)
            /\ call'.size <= MaxRun * Pow2(gran.log2gran))
          => (call'.ret = NULL /\ fault' = "none")]_vars

\* A request refused in a full heap whose last word is partly used.
C8_Witness ==
    /\ call.op = "alloc"
    /\ call.size > 0
    /\ call.ret = NULL
    /\ fault = "none"
    /\ Exhausted(gat)
    /\ gran.ngranules % WordBits # 0

(***************************************************************************)
(* C9  gran_alloc changes the granule table only on success: a call that   *)
(* returns NULL leaves every word as it was; a successful call sets the    *)
(* bits of the returned run, which were 0, and no other bit; log2gran,     *)
(* ngranules and heapstart stay as they were.                              *)
(***************************************************************************)
C9_AllocFrame ==
    [][call'.op = "alloc"
          => /\ gran' = gran
             /\ DOMAIN gat' = DOMAIN gat
             /\ call'.ret = NULL => gat' = gat
             /\ call'.ret # NULL =>
                    \A w \in DOMAIN gat : \A b \in 0 .. (WordBits - 1) :
                        IF WordBits * w + b \in RunAt(call'.ret, call'.size)
                        THEN b \in gat'[w] /\ b \notin gat[w]
                        ELSE b \in gat'[w] <=> b \in gat[w]]_vars

\* A run of 32 granules marked across two words.
C9_Witness ==
    /\ call.op = "alloc"
    /\ call.ret # NULL
    /\ Granules(call.size) = MaxRun
    /\ IndexOf(call.ret) % WordBits # 0
    /\ \A k \in RunAt(call.ret, call.size) : TableBit(gat, k)

(***************************************************************************)
(* C10  gran_free of a range in which some granule of the heap is free (a  *)
(* double free, a free of memory never allocated) fails an assertion on    *)
(* every such call.                                                        *)
(***************************************************************************)
C10_FreeOfFreeGranuleAsserts ==
    [][(/\ call'.op = "free"
        /\ call'.mem # NULL
        /\ \E k \in RunAt(call'.mem, call'.size) :
               k < gran.ngranules /\ ~TableBit(gat, k))
          => fault' # "none"]_vars

\* A free of granules that no live allocation holds, caught by the assertion.
C10_Witness ==
    /\ call.op = "free"
    /\ call.prior = {}
    /\ call.size > 0
    /\ fault = "gran_free:200"

(***************************************************************************)
(* C11  As claimed: for every granule_log2, gran_alloc of a size of more   *)
(* than 32 granules fails an assertion, no size of 1 to 32 granules is     *)
(* rejected by an assertion, and a successful call marks as many granules  *)
(* as the size rounds up to.                                               *)
(***************************************************************************)
C11_OversizeIffRejected ==
    [][call'.op = "alloc"
          => LET n == NGranWide(call'.size.q, call'.size.r)
             IN  /\ n > MaxRun => fault' \in {"gran_alloc:74", "gran_alloc:83"}
                 /\ n \in 1 .. MaxRun => fault' = "none"
                 /\ call'.ret # NULL =>
                        Cardinality({i \in 0 .. (gran.ngranules - 1) :
                                        TableBit(gat', i) /\ ~TableBit(gat, i)}) = n]_vars

(***************************************************************************)
(* C12  As claimed: gran_initialize returns no instance when raw_size is   *)
(* zero, when granule_log2 is outside 1..31 or alignment_log2 is above     *)
(* granule_log2, or when the resulting granule count is zero.              *)
(***************************************************************************)
C12_InitFailsOnBadInput ==
    call.op = "init"
        => /\ (\/ raw.heapsize = 0
               \/ raw.log2gran < 1
               \/ raw.log2gran >= IntBits
               \/ raw.log2align > raw.log2gran) => (pc # "ready" /\ fault # "none")
           /\ pc = "ready" => gran.ngranules # 0

(***************************************************************************)
(* C13  As claimed: with a granule of 4096 bytes, alignment 4096 and a     *)
(* 4096-aligned heap of 1,048,576 bytes the instance has 256 granules,     *)
(* and after four gran_alloc(1024) and the free of the first two addresses *)
(* 254 granules are free and some free run has two granules or more.       *)
(***************************************************************************)
MainScenario ==
    /\ raw.log2gran = PageShift
    /\ raw.log2align = PageShift
    /\ raw.heapsize = HeapSize
    /\ raw.heapstart % PageSize = 0
    /\ locals.size = MainRequest
    /\ Len(locals.addrs) = MainAllocs
    /\ locals.nfreed = MainFrees

FreeGranules ==
    Cardinality({i \in 0 .. (gran.ngranules - 1) : ~TableBit(gat, i)})

C13_Main256Granules ==
    MainScenario
        => /\ gran.ngranules = 256
           /\ FreeGranules = 254
           /\ \E i \in 0 .. (gran.ngranules - 1) : RunFits(gat, i, 2)

(***************************************************************************)
(* C13 as amended: in that scenario the instance has 255 granules (the     *)
(* control block takes the first page of the heap), no assertion fails,    *)
(* 253 granules are free at the end and some free run has two granules or  *)
(* more.                                                                   *)
(***************************************************************************)
C13_Main255Granules ==
    MainScenario
        => /\ fault = "none"
           /\ gran.ngranules = 255
           /\ FreeGranules = 253
           /\ \E i \in 0 .. (gran.ngranules - 1) : RunFits(gat, i, 2)

\* The end of main: addr3 and addr4 are still allocated.
C13_Witness ==
    /\ MainScenario
    /\ fault = "none"
    /\ Cardinality(live) = MainAllocs - MainFrees
    /\ TableBit(gat, 2) /\ TableBit(gat, 3)

(***************************************************************************)
(* C14  On a freshly initialized instance with all granules free, the      *)
(* successive gran_alloc calls of at most one granule each succeed, the    *)
(* i-th of them (from 0, while i < granule_count) returning                *)
(* heap_start + i * 2^granule_log2.                                        *)
(***************************************************************************)
C14_SuccessiveOneGranule ==
    [][(call'.op = "alloc" /\ Len(locals.addrs) < gran.ngranules)
          => /\ fault' = "none"
             /\ call'.ret = AddrOf(Len(locals.addrs))]_vars

\* The 34th call: its granule is the second of table word 1.
C14_Witness ==
    /\ call.op = "alloc"
    /\ Len(locals.addrs) = MaxAllocs
    /\ call.ret = AddrOf(MaxAllocs - 1)
    /\ \A i \in 1 .. MaxAllocs : locals.addrs[i] = AddrOf(i - 1)

(***************************************************************************)
(* C15  Every address gran_alloc returns is a multiple of                  *)
(* 2^alignment_log2, the alignment gran_initialize was given.              *)
(***************************************************************************)
C15_AllocAligned ==
    (call.op = "alloc" /\ call.ret # NULL)
        => call.ret % Pow2(raw.log2align) = 0

\* An address in a heap whose raw start was off the alignment, aligned to the
\* alignment and not to the granule size.
C15_Witness ==
    /\ call.op = "alloc"
    /\ call.ret # NULL
    /\ raw.log2align > 0
    /\ raw.heapstart % Pow2(raw.log2align) # 0
    /\ call.ret % Pow2(raw.log2gran) # 0
    /\ Len(locals.addrs) > 1

(***************************************************************************)
(* C16  Table invariant: in every state reached from a zeroed table by     *)
(* gran_alloc and matching gran_free calls, bit i of the table is 1 if and *)
(* only if granule i belongs to a live allocation, and no bit with index   *)
(* granule_count or more is set.                                           *)
(***************************************************************************)
C16_BitIffLive ==
    pc = "ready"
        => \A w \in DOMAIN gat : \A b \in 0 .. (WordBits - 1) :
               /\ b \in gat[w]
                      <=> \E a \in live : WordBits * w + b \in RunAt(a.addr, a.size)
               /\ WordBits * w + b >= gran.ngranules => b \notin gat[w]

\* After a free, a live run that ends with the last granule of a table whose
\* last word is partly used.
C16_Witness ==
    /\ call.op = "free"
    /\ fault = "none"
    /\ gran.ngranules % WordBits # 0
    /\ \E a \in live : IndexOf(a.addr) + Granules(a.size) = gran.ngranules

(***************************************************************************)
(* C17  As claimed: the scan of gran_alloc reads no table word with an     *)
(* index of ceil(granule_count / 32) or more; at the last word of the      *)
(* table 'next' is all ones and gat[gatidx + 1] is not read.               *)
(***************************************************************************)
C17_ScanReadsInTable ==
    [][(call'.op = "alloc" /\ Granules(call'.size) \in 1 .. MaxRun)
          => ScanReads(gran, gat, 0, Granules(call'.size)) \subseteq TableWords]_vars

(***************************************************************************)
(* C18  As claimed: the granule count gran_initialize stores is            *)
(* floor((raw_end - heap_start) / 2^granule_log2), with heap_start the     *)
(* aligned start after the carve-out, for every heap size, heaps of 65536  *)
(* granules or more included.                                              *)
(***************************************************************************)
C18_CountNotTruncated ==
    (pc = "ready" /\ call.op = "init" /\ gran.heapstart <= HeapEnd(raw))
        => gran.ngranules = (HeapEnd(raw) - gran.heapstart) \div Pow2(gran.log2gran)

(***************************************************************************)
(* C19  As claimed: gran_free checks before it clears; when an assertion   *)
(* of gran_free fails, the granule table is still as it was before the     *)
(* call, also when the run spans two table words.                          *)
(***************************************************************************)
C19_FreeChecksBeforeClearing ==
    [][(call'.op = "free" /\ fault' # "none") => gat' = gat]_vars

(***************************************************************************)
(* C20  As claimed: for an instance whose control block gran_initialize    *)
(* carved from the managed span, gran_release does not hand that block to  *)
(* the system deallocator.                                                 *)
(***************************************************************************)
C20_ReleaseKeepsCarvedBlock ==
    call.op = "release" => call.mem # GranBlock(raw)

(***************************************************************************)
(* C21  Every gran_alloc call terminates, for every table state and every  *)
(* size: a call that has entered its scan comes to its end; each pass of   *)
(* the inner loop returns, breaks, or advances bitidx by a shift of at     *)
(* least 1; and the outer loop comes to at most granule_count/32 + 1       *)
(* table words.                                                            *)
(***************************************************************************)
C21_AllocTerminates ==
    /\ [](frame.visits <= (gran.ngranules \div WordBits) + 1)
    /\ [][(/\ frame.at = "inner"
           /\ ScanCond(gran, frame.granidx, frame.bitidx, frame.ngranules))
             => \/ frame'.at = "idle"
                \/ frame'.at = "outer" /\ frame.curr = AllOnes
                \/ /\ frame'.at = "inner"
                   /\ frame'.bitidx >= frame.bitidx + 1
                   /\ frame'.bitidx <= WordBits]_vars
    /\ (frame.at # "idle") ~> (frame.at = "idle")

\* A call that found nothing in a table with every other granule allocated:
\* it came to both words of the 37 granule table, as many as the bound
\* allows, and the last inner loop made its four passes of shift 1.
C21_Witness ==
    /\ call.op = "alloc"
    /\ call.ret = NULL
    /\ fault = "none"
    /\ frame.at = "idle"
    /\ frame.ngranules = 2
    /\ gran.ngranules > WordBits
    /\ frame.visits = (gran.ngranules \div WordBits) + 1
    /\ frame.bitidx = 4

(***************************************************************************)
(* C22  As claimed: after gran_initialize the table storage reserved,      *)
(* SIZEOF_GAT of the first-pass granule count, holds at least              *)
(* ceil(granule_count / 32) words for the granule count that is stored,    *)
(* and the carved block [raw_start, raw_start + SIZEOF_MM_GRAN) does not   *)
(* overlap the granule region                                              *)
(* [heap_start, heap_start + granule_count * 2^granule_log2), so that the  *)
(* table word of every granule of the heap is inside the reserved table.   *)
(***************************************************************************)
C22_TwoPassConsistent ==
    (pc = "ready" /\ call.op = "init")
        => LET reserved == SizeofGat(FirstPassNGranules(raw))
           IN  /\ (gran.ngranules + WordBits - 1) \div WordBits <= reserved
               /\ \/ gran.ngranules = 0
                  \/ GranBlock(raw) + GranHead(raw) <= gran.heapstart
               /\ \A i \in 0 .. (gran.ngranules - 1) : i \div WordBits < reserved

====
